---- MODULE Spec2Model ----
(***************************************************************************)
(* A model of three pieces of the cpsplines sources:                       *)
(*   - template/utils/fast_forecast_mat.py: get_idx_fitting_region and     *)
(*     get_weighted_B (the fitting-region masking of the design matrices), *)
(*   - cpsplines/utils/clean_data_covid.py: displaced_forecast_covid,      *)
(*   - template/graphics/plot_one_smoothing.py: plot_curves and            *)
(*     plot_surfaces.                                                      *)
(* Each piece has its own specification (SpecMask, SpecDisp, SpecPlot);    *)
(* the variables of the other pieces stay at their idle values.            *)
(* SpecGraphics runs either of the two plotting functions.                 *)
(***************************************************************************)
EXTENDS Integers, Sequences, FiniteSets, TLC

VARIABLES
    \* ---- get_weighted_B ------------------------------------------------
    heap,               \* the ndarray objects: reference (1..Len) -> matrix
    bspline_bases,      \* the argument: sequence of BsplineBasis objects
    idx_fitting_region, \* local of get_weighted_B (line 51)
    weighted_mat,       \* local of get_weighted_B (line 50): references
    loop_i,             \* the index of the for loop of line 52
    mpc,                \* position in get_weighted_B
    in_bases,           \* the bases as they were when the call was made
    in_heap,            \* the arrays as they were when the call was made
    prev_out,           \* the matrices the previous call returned
    ncalls,             \* calls of get_weighted_B made so far
    written,            \* the caller wrote into a returned matrix
    \* ---- displaced_forecast_covid -------------------------------------
    deriv,              \* argument: the growth rates (float array)
    xmax,               \* argument
    lag,                \* argument
    factor_deriv,       \* argument
    x_last,             \* local (line 220)
    deriv_pred,         \* local (line 222)
    x_pred,             \* local (line 224)
    dpc,                \* position in displaced_forecast_covid
    derr,               \* the exception raised and the line that raised it
    dprev,              \* arguments and result of the previous call
    dcalls,             \* calls of displaced_forecast_covid made so far
    \* ---- plot_curves --------------------------------------------------
    fittings,           \* argument: the curves (whether each has y_fitted)
    knot_positions,     \* argument
    constant_constraints, \* argument
    col_curve,          \* argument: number of colours, -1 for None
    curve_i,            \* the index of the for loop of line 110
    curve_bsp,          \* local bsp (line 114)
    x_left,             \* local (line 117): number of points
    x_right,            \* local (line 117): number of points
    y_end,              \* local (line 122)
    plot_x,             \* length of the x sequence given to ax.plot
    plot_y,             \* length of the y sequence given to ax.plot
    ppc,                \* position in plot_curves
    perr,               \* the exception raised and the line that raised it
    plog,               \* the calls made on the curves and the axes so far
    \* ---- plot_surfaces ------------------------------------------------
    surf_n,             \* argument fittings: the number of surfaces
    col_surface,        \* argument, after line 189: number of colour maps
    contour_plot,       \* argument
    surf_knots,         \* argument knot_positions
    surf_i,             \* the index of the for loop of line 193
    surf_bsp,           \* surface.bspline_bases of the current surface
    surf_fitted,        \* the current surface has y_fitted
    sx_left,            \* local x_left (line 194): points per axis
    sx_right,           \* local x_right (line 194): points per axis
    ext_x0,             \* local (line 197): its length
    ext_x1,             \* local (line 200): its length
    y_end_0,            \* local (line 203)
    y_end_1,            \* local (line 208)
    ext_y,              \* local (lines 214-231): its shape
    fig_ax,             \* local (line 191): number of (figure, axes) pairs
    spc,                \* position in plot_surfaces
    serr                \* the exception raised and the line that raised it

maskVars == <<heap, bspline_bases, idx_fitting_region, weighted_mat, loop_i,
              mpc, in_bases, in_heap, prev_out, ncalls, written>>

dispVars == <<deriv, xmax, lag, factor_deriv, x_last, deriv_pred, x_pred,
              dpc, derr, dprev, dcalls>>

plotVars == <<fittings, knot_positions, constant_constraints, col_curve,
              curve_i, curve_bsp, x_left, x_right, y_end, plot_x, plot_y, ppc,
              perr, plog>>

surfVars == <<surf_n, col_surface, contour_plot, surf_knots, surf_i, surf_bsp,
              surf_fitted, sx_left, sx_right, ext_x0, ext_x1, y_end_0, y_end_1,
              ext_y, fig_ax, spc, serr>>

vars == <<maskVars, dispVars, plotVars, surfVars>>

notMaskVars == <<dispVars, plotVars, surfVars>>
notDispVars == <<maskVars, plotVars, surfVars>>
notPlotVars == <<maskVars, dispVars, surfVars>>
notSurfVars == <<maskVars, dispVars, plotVars>>

Min(a, b) == IF a < b THEN a ELSE b
Max(a, b) == IF a < b THEN b ELSE a

-----------------------------------------------------------------------------
(* Bounds of the model.                                                    *)
MaxAxes == 2        \* bases passed in one call
MaxEntries == 4     \* entries of all the design matrices of one call together
MaxCols == 2        \* columns (basis functions) of a design matrix
MaxCalls == 2       \* calls of get_weighted_B in one run
MaxLen == 3         \* length of deriv
MaxDispCalls == 2   \* calls of displaced_forecast_covid in one run
MaxCurves == 2      \* curves passed to plot_curves
MaxExt == 1         \* int_back and int_forw of a plotted curve
MaxSamples == 2     \* samples of a plotted curve
MaxThin == 1        \* points thin_prediction_range puts in one region
MaxPts == 1         \* point sets passed to plot_curves
FloatBits == 6      \* significand bits of the floating-point format
FracBits == 3       \* the smallest positive float is 2^-FracBits
MatrixEntries == {0, 1}

-----------------------------------------------------------------------------
(* The variables of a piece that is not running.                           *)

NoNum == [t |-> "none", v |-> 0]
NoErr == [exc |-> "none", line |-> 0]

DispIdle ==
    /\ deriv = <<>>
    /\ xmax = NoNum
    /\ lag = NoNum
    /\ factor_deriv = NoNum
    /\ x_last = NoNum
    /\ deriv_pred = <<>>
    /\ x_pred = <<>>
    /\ dpc = "idle"
    /\ derr = NoErr
    /\ dprev = <<>>
    /\ dcalls = 0

NoBsp == [int_back |-> 0, int_forw |-> 0, xsample |-> <<>>, y_fitted |-> 0]
NoSlice == [none |-> TRUE, v |-> 0]

NoShape == [r |-> 0, c |-> 0]

SurfIdle ==
    /\ surf_n = 0
    /\ col_surface = 0
    /\ contour_plot = FALSE
    /\ surf_knots = FALSE
    /\ surf_i = 0
    /\ surf_bsp = <<>>
    /\ surf_fitted = FALSE
    /\ sx_left = <<0, 0>>
    /\ sx_right = <<0, 0>>
    /\ ext_x0 = 0
    /\ ext_x1 = 0
    /\ y_end_0 = NoSlice
    /\ y_end_1 = NoSlice
    /\ ext_y = NoShape
    /\ fig_ax = 0
    /\ spc = "idle"
    /\ serr = NoErr

PlotIdle ==
    /\ SurfIdle
    /\ fittings = <<>>
    /\ knot_positions = FALSE
    /\ constant_constraints = FALSE
    /\ col_curve = -1
    /\ curve_i = 0
    /\ curve_bsp = NoBsp
    /\ x_left = 0
    /\ x_right = 0
    /\ y_end = NoSlice
    /\ plot_x = 0
    /\ plot_y = 0
    /\ ppc = "idle"
    /\ perr = NoErr
    /\ plog = <<>>

-----------------------------------------------------------------------------
(* numpy arrays (2-D), rows and columns numbered from 0 as in the source.  *)

\* np.zeros(shape)
np_zeros(shape) ==
    [shape |-> shape,
     data  |-> [r \in 0..(shape[1] - 1) |-> [c \in 0..(shape[2] - 1) |-> 0]]]

\* slice(start, stop, None).indices(n): the rows a slice selects in an axis
\* of length n (negative bounds count from the end, bounds are clipped)
SliceRows(sl, n) ==
    LET lo == IF sl.start < 0 THEN Max(sl.start + n, 0) ELSE Min(sl.start, n)
        hi == IF sl.stop < 0 THEN Max(sl.stop + n, 0) ELSE Min(sl.stop, n)
    IN  {r \in 0..(n - 1) : lo <= r /\ r < hi}

\* a slip: dst[:, :] = src[:, :], the slice left out
AssignRows_full(dst, src, sl) == [dst EXCEPT !.data = src.data]

\* a slip: dst[sl, :] = src[0:len, :], the source rows taken from the top
AssignRows_fromtop(dst, src, sl) ==
    LET rows == SliceRows(sl, dst.shape[1])
    IN  [dst EXCEPT !.data =
            [r \in DOMAIN dst.data |->
                IF r \in rows /\ (r - sl.start) \in DOMAIN src.data
                THEN src.data[r - sl.start] ELSE dst.data[r]]]

\* dst[sl, :] = src[sl, :]   (line 54); both have the same shape
AssignRows(dst, src, sl) ==
    LET rows == SliceRows(sl, dst.shape[1])
        from == SliceRows(sl, src.shape[1])
    IN  [dst EXCEPT !.data =
            [r \in DOMAIN dst.data |->
                IF r \in rows /\ r \in from THEN src.data[r] ELSE dst.data[r]]]

-----------------------------------------------------------------------------
(* BsplineBasis objects: the attributes the two functions read.  The class *)
(* itself (template/psplines/bspline_basis.py) is not part of the sources  *)
(* at hand; matrixB has one row per backward point, sample and forward     *)
(* point.                                                                  *)

XSample(n) == [k \in 1..n |-> k - 1]

NRows(s) == s.int_back + s.n + s.int_forw

BasisShapes ==
    {s \in [int_back : 0..MaxEntries, int_forw : 0..MaxEntries,
            n : 1..MaxEntries, ncols : 1..MaxCols] :
        NRows(s) * s.ncols <= MaxEntries}

MatricesOfShape(nrows, ncols) ==
    {[shape |-> <<nrows, ncols>>, data |-> d] :
        d \in [0..(nrows - 1) -> [0..(ncols - 1) -> MatrixEntries]]}

\* a basis to be: its shape and its matrixB
BasisInputs ==
    UNION {{[s |-> s, B |-> m] : m \in MatricesOfShape(NRows(s), s.ncols)} :
              s \in BasisShapes}

Entries(m) == m.shape[1] * m.shape[2]

\* the sequences of at most k bases with at most `budget` entries together
RECURSIVE InputSeqs(_, _)
InputSeqs(k, budget) ==
    IF k = 0 THEN {<<>>}
    ELSE {<<>>} \cup
         UNION {{<<p>> \o rest :
                    rest \in InputSeqs(k - 1, budget - Entries(p.B))} :
                   p \in {q \in BasisInputs : Entries(q.B) <= budget}}

\* the basis of shape s whose matrixB is the array with reference ref
Basis(s, ref) ==
    [int_back |-> s.int_back, int_forw |-> s.int_forw,
     xsample |-> XSample(s.n), matrixB |-> ref]

-----------------------------------------------------------------------------
(* template/utils/fast_forecast_mat.py                                     *)

\* a slip: slice(bsp.int_back, len(bsp.xsample)), the offset forgotten
FittingSlice_nooffset(bsp) ==
    [start |-> bsp.int_back, stop |-> Len(bsp.xsample)]

\* a slip: the last sample row left out of the slice
FittingSlice_short(bsp) ==
    [start |-> bsp.int_back, stop |-> bsp.int_back + Len(bsp.xsample) - 1]

\* slice(bsp.int_back, bsp.int_back + len(bsp.xsample), None)   (line 27)
FittingSlice(bsp) ==
    [start |-> bsp.int_back, stop |-> bsp.int_back + Len(bsp.xsample)]

\* get_idx_fitting_region (lines 26-29): one slice per basis, in order
get_idx_fitting_region(bases) ==
    [k \in 1..Len(bases) |-> FittingSlice(bases[k])]

\* a slip: B_weighted = bsp.matrixB, the rows outside the slice zeroed in
\* place, no new array made
LoopBody_inplace(h, bsp, sl) ==
    LET B == h[bsp.matrixB]
        keep == SliceRows(sl, B.shape[1])
    IN  [heap |-> [h EXCEPT ![bsp.matrixB].data =
                      [r \in DOMAIN B.data |->
                          IF r \in keep THEN B.data[r]
                          ELSE [c \in DOMAIN B.data[r] |-> 0]]],
         ref |-> bsp.matrixB]

\* lines 53-55: a new zero array of matrixB's shape, the slice rows copied
\* into it, the new array appended to the list.  Gives the new heap and the
\* reference of the new array.
LoopBody(h, bsp, sl) ==
    LET B_weighted == np_zeros(h[bsp.matrixB].shape)
        ref == Len(h) + 1
    IN  [heap |-> Append(h, AssignRows(B_weighted, h[bsp.matrixB], sl)),
         ref |-> ref]

MaskInit ==
    /\ \E ins \in InputSeqs(MaxAxes, MaxEntries) \ {<<>>} :
         /\ heap = [k \in 1..Len(ins) |-> ins[k].B]
         /\ bspline_bases = [k \in 1..Len(ins) |-> Basis(ins[k].s, k)]
    /\ idx_fitting_region = <<>>
    /\ weighted_mat = <<>>
    /\ loop_i = 0
    /\ mpc = "ready"
    /\ in_bases = bspline_bases
    /\ in_heap = heap
    /\ prev_out = <<>>
    /\ ncalls = 0
    /\ written = FALSE
    /\ DispIdle
    /\ PlotIdle

\* lines 50-51
GetWeightedB_Enter ==
    /\ mpc = "ready"
    /\ ncalls < MaxCalls
    /\ weighted_mat' = <<>>
    /\ idx_fitting_region' = get_idx_fitting_region(bspline_bases)
    /\ loop_i' = 0
    /\ mpc' = "loop"
    /\ in_bases' = bspline_bases
    /\ in_heap' = heap
    /\ ncalls' = ncalls + 1
    /\ UNCHANGED <<heap, bspline_bases, prev_out, written>>
    /\ UNCHANGED notMaskVars

\* one iteration of the loop of lines 52-55
GetWeightedB_Loop ==
    /\ mpc = "loop"
    /\ loop_i < Len(bspline_bases)
    /\ LET bsp == bspline_bases[loop_i + 1]
           res == LoopBody(heap, bsp, idx_fitting_region[loop_i + 1])
       IN  /\ heap' = res.heap
           /\ weighted_mat' = Append(weighted_mat, res.ref)
    /\ loop_i' = loop_i + 1
    /\ UNCHANGED <<bspline_bases, idx_fitting_region, mpc, in_bases, in_heap,
                   prev_out, ncalls, written>>
    /\ UNCHANGED notMaskVars

\* line 56
GetWeightedB_Return ==
    /\ mpc = "loop"
    /\ loop_i = Len(bspline_bases)
    /\ mpc' = "returned"
    /\ UNCHANGED <<heap, bspline_bases, idx_fitting_region, weighted_mat,
                   loop_i, in_bases, in_heap, prev_out, ncalls, written>>
    /\ UNCHANGED notMaskVars

\* the caller writes one entry of a matrix it was handed back
WriteReturned ==
    /\ mpc = "returned"
    /\ ~written
    /\ \E k \in 1..Len(weighted_mat) :
         LET ref == weighted_mat[k] IN
         \E r \in DOMAIN heap[ref].data :
           \E c \in DOMAIN heap[ref].data[r] :
             \E v \in MatrixEntries :
               /\ v # heap[ref].data[r][c]
               /\ heap' = [heap EXCEPT ![ref].data[r][c] = v]
    /\ written' = TRUE
    /\ UNCHANGED <<bspline_bases, idx_fitting_region, weighted_mat, loop_i,
                   mpc, in_bases, in_heap, prev_out, ncalls>>
    /\ UNCHANGED notMaskVars

\* the caller passes the masking its own output: bases like the ones given,
\* with the returned matrices as matrixB
MaskAgain ==
    /\ mpc = "returned"
    /\ ~written
    /\ ncalls < MaxCalls
    /\ prev_out' = [k \in 1..Len(weighted_mat) |-> heap[weighted_mat[k]]]
    /\ bspline_bases' = [k \in 1..Len(bspline_bases) |->
                           [bspline_bases[k] EXCEPT !.matrixB = weighted_mat[k]]]
    /\ mpc' = "ready"
    /\ UNCHANGED <<heap, idx_fitting_region, weighted_mat, loop_i, in_bases,
                   in_heap, ncalls, written>>
    /\ UNCHANGED notMaskVars

MaskNext ==
    \/ GetWeightedB_Enter
    \/ GetWeightedB_Loop
    \/ GetWeightedB_Return
    \/ WriteReturned
    \/ MaskAgain

SpecMask == MaskInit /\ [][MaskNext]_vars

-----------------------------------------------------------------------------
(* Properties of get_idx_fitting_region and get_weighted_B.               *)

ZeroRow(m, r) == \A c \in DOMAIN m.data[r] : m.data[r][c] = 0
NonZero(m) == \E r \in DOMAIN m.data : ~ZeroRow(m, r)
Returned == mpc = "returned" /\ ~written
MatrixB(k) == heap[bspline_bases[k].matrixB]
Weighted(k) == heap[weighted_mat[k]]
InFit(k, r) ==
    /\ bspline_bases[k].int_back <= r
    /\ r < bspline_bases[k].int_back + Len(bspline_bases[k].xsample)

\* C1: get_weighted_B returns one matrix per basis, in input order; the
\* i-th has the shape of basis i's matrixB, equals matrixB on the rows r with
\* int_back <= r < int_back + n_samples and is zero on every other row.
C1_WeightedRows ==
    Returned =>
        /\ Len(weighted_mat) = Len(bspline_bases)
        /\ \A k \in 1..Len(bspline_bases) :
              /\ Weighted(k).shape = MatrixB(k).shape
              /\ DOMAIN Weighted(k).data = DOMAIN MatrixB(k).data
              /\ \A r \in DOMAIN MatrixB(k).data :
                    IF InFit(k, r)
                    THEN Weighted(k).data[r] = MatrixB(k).data[r]
                    ELSE /\ DOMAIN Weighted(k).data[r] = DOMAIN MatrixB(k).data[r]
                         /\ ZeroRow(Weighted(k), r)

\* two bases returned, one of them with backward and forward rows that are
\* not zero in matrixB and a sample row that is not zero
C1_Witness ==
    /\ Returned
    /\ Len(bspline_bases) = 2
    /\ \E k \in 1..2 :
          /\ bspline_bases[k].int_back = 1
          /\ bspline_bases[k].int_forw = 1
          /\ \A r \in DOMAIN MatrixB(k).data : ~ZeroRow(MatrixB(k), r)

\* C2: get_idx_fitting_region gives one slice per basis, in input order; the
\* slice of basis i is the contiguous half-open range
\* [int_back_i, int_back_i + len(xsample_i)), whatever int_forw_i and the
\* other bases are.
C2_FittingSlices ==
    mpc \in {"loop", "returned"} =>
        /\ Len(idx_fitting_region) = Len(bspline_bases)
        /\ \A k \in 1..Len(bspline_bases) :
              /\ idx_fitting_region[k].start = bspline_bases[k].int_back
              /\ idx_fitting_region[k].stop =
                    bspline_bases[k].int_back + Len(bspline_bases[k].xsample)
              /\ SliceRows(idx_fitting_region[k], MatrixB(k).shape[1]) =
                    {r \in DOMAIN MatrixB(k).data : InFit(k, r)}
              /\ \A j \in 1..Len(bspline_bases) :
                    (/\ bspline_bases[j].int_back = bspline_bases[k].int_back
                     /\ Len(bspline_bases[j].xsample) =
                           Len(bspline_bases[k].xsample))
                    => idx_fitting_region[j] = idx_fitting_region[k]

\* two bases with the same int_back and samples and different int_forw
C2_Witness ==
    /\ mpc = "returned"
    /\ Len(bspline_bases) = 2
    /\ bspline_bases[1].int_back = bspline_bases[2].int_back
    /\ Len(bspline_bases[1].xsample) = Len(bspline_bases[2].xsample)
    /\ bspline_bases[1].int_forw # bspline_bases[2].int_forw

\* C3: get_weighted_B does not change its input: during and after a call
\* the bases and every array that existed when the call was made are as they
\* were, each returned matrix is a new array, and a later write to a returned
\* matrix leaves matrixB as it was.
C3_InputUnchanged ==
    mpc \in {"loop", "returned"} =>
        /\ bspline_bases = in_bases
        /\ Len(heap) >= Len(in_heap)
        /\ \A ref \in 1..Len(in_heap) : heap[ref] = in_heap[ref]
        /\ \A k \in 1..Len(weighted_mat) :
              /\ weighted_mat[k] > Len(in_heap)
              /\ \A j \in 1..Len(weighted_mat) :
                    j # k => weighted_mat[j] # weighted_mat[k]

\* the caller has written into a returned matrix of a basis whose matrixB
\* has nonzero rows outside the fitting region
C3_Witness ==
    /\ mpc = "returned"
    /\ written
    /\ \E k \in 1..Len(bspline_bases) :
          /\ bspline_bases[k].int_back > 0
          /\ ~ZeroRow(MatrixB(k), 0)
          /\ \E r \in DOMAIN MatrixB(k).data :
                InFit(k, r) /\ Weighted(k).data[r] # MatrixB(k).data[r]

\* C4: masking is idempotent: get_weighted_B applied to bases whose matrixB
\* are the matrices it returned (same int_back and samples) returns matrices
\* equal to those.
C4_Idempotent ==
    (Returned /\ ncalls >= 2) =>
        /\ Len(weighted_mat) = Len(prev_out)
        /\ \A k \in 1..Len(weighted_mat) : Weighted(k) = prev_out[k]

\* a second call has returned, for a basis with int_back > 0 whose first
\* masking changed the matrix and left it nonzero
C4_Witness ==
    /\ Returned
    /\ ncalls = 2
    /\ \E k \in 1..Len(bspline_bases) :
          /\ bspline_bases[k].int_back > 0
          /\ heap[k] # prev_out[k]
          /\ NonZero(prev_out[k])

\* C5: for a basis with int_back = 0 and int_forw = 0 the fitting slice
\* selects every row of matrixB and the returned matrix equals matrixB.
C5_NoExtension ==
    Returned =>
        \A k \in 1..Len(bspline_bases) :
            (bspline_bases[k].int_back = 0 /\ bspline_bases[k].int_forw = 0)
            => /\ SliceRows(idx_fitting_region[k], MatrixB(k).shape[1]) =
                    DOMAIN MatrixB(k).data
               /\ Weighted(k) = MatrixB(k)

\* a basis without extension, two samples, no zero row in matrixB
C5_Witness ==
    /\ Returned
    /\ ncalls = 1
    /\ \E k \in 1..Len(bspline_bases) :
          /\ bspline_bases[k].int_back = 0
          /\ bspline_bases[k].int_forw = 0
          /\ Len(bspline_bases[k].xsample) >= 2
          /\ \A r \in DOMAIN MatrixB(k).data : ~ZeroRow(MatrixB(k), r)

-----------------------------------------------------------------------------
(* Python numbers.  An int is exact.  A float is a binary floating-point   *)
(* number with FloatBits significand bits, round-to-nearest-even, written  *)
(* as a whole number of units of 2^-FracBits (the double of the source has *)
(* 53 significand bits; the rounding rule is the same).                    *)

MaskIdle ==
    /\ heap = <<>>
    /\ bspline_bases = <<>>
    /\ idx_fitting_region = <<>>
    /\ weighted_mat = <<>>
    /\ loop_i = 0
    /\ mpc = "idle"
    /\ in_bases = <<>>
    /\ in_heap = <<>>
    /\ prev_out = <<>>
    /\ ncalls = 0
    /\ written = FALSE

Unit == 2 ^ FracBits

PyInt(x) == [t |-> "int", v |-> x]
PyFloat(q) == [t |-> "float", v |-> q]

\* n / d rounded to a whole number, halves to the even one (n >= 0, d > 0)
RoundHalfEven(n, d) ==
    LET q == n \div d
        r == n % d
    IN  IF 2 * r < d THEN q
        ELSE IF 2 * r > d THEN q + 1
        ELSE q + (q % 2)

\* the s with n / (d * 2^s) below 2^FloatBits (n >= 0, d > 0)
RECURSIVE Shift(_, _, _)
Shift(n, d, s) ==
    IF n < (2 ^ (FloatBits + s)) * d THEN s ELSE Shift(n, d, s + 1)

\* the float nearest to num / den units (den > 0)
RoundF(num, den) ==
    LET n == IF num < 0 THEN -num ELSE num
        s == Shift(n, den, 0)
        m == RoundHalfEven(n, den * (2 ^ s)) * (2 ^ s)
    IN  IF num < 0 THEN -m ELSE m

\* float(a), in units
ToF(a) == IF a.t = "int" THEN RoundF(a.v * Unit, 1) ELSE a.v

\* the exact value of a, in units
Exact(a) == IF a.t = "int" THEN a.v * Unit ELSE a.v

\* the float literal num/den
FltOf(num, den) == PyFloat(RoundF(num * Unit, den))

BothInt(a, b) == a.t = "int" /\ b.t = "int"

\* a + b, a - b, a * b, a / b of Python
py_add(a, b) ==
    IF BothInt(a, b) THEN PyInt(a.v + b.v) ELSE PyFloat(RoundF(ToF(a) + ToF(b), 1))
py_sub(a, b) ==
    IF BothInt(a, b) THEN PyInt(a.v - b.v) ELSE PyFloat(RoundF(ToF(a) - ToF(b), 1))
py_mul(a, b) ==
    IF BothInt(a, b) THEN PyInt(a.v * b.v) ELSE PyFloat(RoundF(ToF(a) * ToF(b), Unit))
\* (b is not zero)
py_truediv(a, b) ==
    LET n == IF BothInt(a, b) THEN a.v ELSE ToF(a)
        d == IF BothInt(a, b) THEN b.v ELSE ToF(b)
    IN  IF d > 0 THEN PyFloat(RoundF(n * Unit, d)) ELSE PyFloat(RoundF(-n * Unit, -d))

IsZero(a) == a.v = 0
NumEq(a, b) == Exact(a) = Exact(b)
NumLe(a, b) == Exact(a) <= Exact(b)
NumLt(a, b) == Exact(a) < Exact(b)

\* math.ceil of the float of q units
Ceil(q) == -((-q) \div Unit)

-----------------------------------------------------------------------------
(* np.arange(start, stop, step), as numpy computes it: the length is       *)
(* ceil((stop - start) / step), element 0 is start, element 1 is           *)
(* start + step, element i is start + i * delta with                       *)
(* delta = element 1 - element 0.  A zero step makes the division raise.   *)

ArangeLen(start, stop, step) ==
    LET d == py_sub(stop, start)
        val == py_truediv(d, step)
        len == Ceil(val.v)
    IN  IF IsZero(val) /\ ~IsZero(d)
        THEN (IF (d.v < 0) # (step.v < 0) THEN 0 ELSE 1)
        ELSE Max(len, 0)

\* the array's dtype: int64 when the three arguments are ints, else float64
AsDtype(a, start, stop, step) ==
    IF start.t = "int" /\ stop.t = "int" /\ step.t = "int" THEN a
    ELSE PyFloat(ToF(a))

ArangeElem(i, start, stop, step) ==
    LET e0 == AsDtype(start, start, stop, step)
        e1 == AsDtype(py_add(start, step), start, stop, step)
        delta == py_sub(e1, e0)
    IN  IF i = 0 THEN e0
        ELSE IF i = 1 THEN e1
        ELSE py_add(e0, py_mul(AsDtype(PyInt(i), start, stop, step), delta))

np_arange(start, stop, step) ==
    [k \in 1..ArangeLen(start, stop, step) |->
        ArangeElem(k - 1, start, stop, step)]

-----------------------------------------------------------------------------
(* cpsplines/utils/clean_data_covid.py: displaced_forecast_covid           *)

\* a slip: the range stops at x_last, so that x_last is one step past the
\* last coordinate
XPred_open(xmax_, lag_, x_last_) ==
    np_arange(py_add(xmax_, lag_), x_last_, lag_)

\* a slip: the factor added instead of multiplied
ScaleElem_add(elem, factor) == py_add(elem, factor)

\* xmax + lag * len(deriv)   (line 220)
XLast(xmax_, lag_, n) == py_add(xmax_, py_mul(lag_, PyInt(n)))

\* elem * factor_deriv   (line 222)
ScaleElem(elem, factor) == py_mul(elem, factor)

\* np.arange(xmax + lag, x_last + lag, lag)   (line 224)
XPred(xmax_, lag_, x_last_) ==
    np_arange(py_add(xmax_, lag_), py_add(x_last_, lag_), lag_)

\* the arguments the calls are made with
DerivVals == {FltOf(1, 1), FltOf(2, 1), FltOf(3, 1)}
DerivSet == UNION {[1..n -> DerivVals] : n \in 0..MaxLen}
XmaxSet == {PyInt(0), PyInt(10), FltOf(0, 1), FltOf(1, 4)}
LagSet == {PyInt(0), PyInt(1), PyInt(2), FltOf(0, 1), FltOf(1, 2), FltOf(9, 4)}
FactorSet == {PyInt(1), PyInt(2), FltOf(1, 2)}

DispInit ==
    /\ MaskIdle
    /\ DispIdle
    /\ PlotIdle

\* a call: the arguments are bound (lines 187-192)
Disp_Call ==
    /\ dpc = "idle"
    /\ \E d \in DerivSet, xm \in XmaxSet, lg \in LagSet, f \in FactorSet :
         /\ deriv' = d
         /\ xmax' = xm
         /\ lag' = lg
         /\ factor_deriv' = f
    /\ x_last' = NoNum
    /\ deriv_pred' = <<>>
    /\ x_pred' = <<>>
    /\ dpc' = "line220"
    /\ dcalls' = dcalls + 1
    /\ UNCHANGED <<derr, dprev>>
    /\ UNCHANGED notDispVars

\* the caller calls again with another factor_deriv, the rest the same
Disp_CallAgain ==
    /\ dpc = "returned"
    /\ dcalls < MaxDispCalls
    /\ \E f \in FactorSet \ {factor_deriv} : factor_deriv' = f
    /\ dprev' = <<[deriv |-> deriv, xmax |-> xmax, lag |-> lag,
                   factor_deriv |-> factor_deriv, x_last |-> x_last,
                   x_pred |-> x_pred, deriv_pred |-> deriv_pred]>>
    /\ x_last' = NoNum
    /\ deriv_pred' = <<>>
    /\ x_pred' = <<>>
    /\ dpc' = "line220"
    /\ dcalls' = dcalls + 1
    /\ UNCHANGED <<deriv, xmax, lag, derr>>
    /\ UNCHANGED notDispVars

\* line 220
Disp_XLast ==
    /\ dpc = "line220"
    /\ x_last' = XLast(xmax, lag, Len(deriv))
    /\ dpc' = "line222"
    /\ UNCHANGED <<deriv, xmax, lag, factor_deriv, deriv_pred, x_pred, derr,
                   dprev, dcalls>>
    /\ UNCHANGED notDispVars

\* line 222
Disp_DerivPred ==
    /\ dpc = "line222"
    /\ deriv_pred' = [k \in 1..Len(deriv) |-> ScaleElem(deriv[k], factor_deriv)]
    /\ dpc' = "line224"
    /\ UNCHANGED <<deriv, xmax, lag, factor_deriv, x_last, x_pred, derr,
                   dprev, dcalls>>
    /\ UNCHANGED notDispVars

\* line 224, the step is not zero
Disp_XPred ==
    /\ dpc = "line224"
    /\ ~IsZero(lag)
    /\ x_pred' = XPred(xmax, lag, x_last)
    /\ dpc' = "line225"
    /\ UNCHANGED <<deriv, xmax, lag, factor_deriv, x_last, deriv_pred, derr,
                   dprev, dcalls>>
    /\ UNCHANGED notDispVars

\* line 224, the step is zero: np.arange divides (stop - start) by it.  With
\* Python numbers the division raises ZeroDivisionError; with numpy scalars
\* it gives nan and np.arange raises ValueError.
Disp_XPredRaise ==
    /\ dpc = "line224"
    /\ IsZero(lag)
    /\ \E exc \in {"ZeroDivisionError", "ValueError"} :
         derr' = [exc |-> exc, line |-> 224]
    /\ dpc' = "raised"
    /\ UNCHANGED <<deriv, xmax, lag, factor_deriv, x_last, deriv_pred, x_pred,
                   dprev, dcalls>>
    /\ UNCHANGED notDispVars

\* line 225
Disp_Return ==
    /\ dpc = "line225"
    /\ dpc' = "returned"
    /\ UNCHANGED <<deriv, xmax, lag, factor_deriv, x_last, deriv_pred, x_pred,
                   derr, dprev, dcalls>>
    /\ UNCHANGED notDispVars

DispNext ==
    \/ Disp_Call
    \/ Disp_CallAgain
    \/ Disp_XLast
    \/ Disp_DerivPred
    \/ Disp_XPred
    \/ Disp_XPredRaise
    \/ Disp_Return

SpecDisp == DispInit /\ [][DispNext]_vars

-----------------------------------------------------------------------------
(* Properties of displaced_forecast_covid.                                 *)

DispReturned == dpc = "returned"
LagPositive == Exact(lag) > 0
LastOf(seq) == seq[Len(seq)]

\* C6: displaced_forecast_covid returns x_last = xmax + lag * len(deriv) and
\* deriv_pred of deriv's length with deriv_pred[k] = deriv[k] * factor_deriv;
\* with factor_deriv = 1 deriv_pred equals deriv; a call that differs from
\* the previous one only in factor_deriv returns the same x_last and x_pred.
C6_ScaledCopy ==
    DispReturned =>
        /\ x_last = py_add(xmax, py_mul(lag, PyInt(Len(deriv))))
        /\ Len(deriv_pred) = Len(deriv)
        /\ \A k \in 1..Len(deriv) :
              /\ deriv_pred[k] = py_mul(deriv[k], factor_deriv)
              /\ NumEq(factor_deriv, PyInt(1)) => deriv_pred[k] = deriv[k]
        /\ \A p \in 1..Len(dprev) :
              (dprev[p].deriv = deriv /\ dprev[p].xmax = xmax
                  /\ dprev[p].lag = lag)
              => (dprev[p].x_last = x_last /\ dprev[p].x_pred = x_pred)

\* a second call with factor_deriv = 1 after one with factor_deriv = 2, for
\* three growth rates and a float lag
C6_Witness ==
    /\ DispReturned
    /\ dcalls = 2
    /\ factor_deriv = PyInt(1)
    /\ dprev[1].factor_deriv = PyInt(2)
    /\ dprev[1].deriv_pred # deriv_pred
    /\ Len(deriv) = 3
    /\ lag = FltOf(1, 2)

\* C7: for lag > 0, x_pred has exactly len(deriv) coordinates (one per
\* element of deriv_pred), strictly ascending with constant step lag, the
\* k-th (from 1) being xmax + k * lag.  The values are compared where the
\* arithmetic is exact (int coordinates); float coordinates are held to the
\* count and the order only.
C7_AlignedCoordinates ==
    (DispReturned /\ LagPositive) =>
        /\ Len(x_pred) = Len(deriv)
        /\ Len(x_pred) = Len(deriv_pred)
        /\ \A k \in 1..Len(x_pred) :
              x_pred[k].t = "int" =>
                  x_pred[k] = py_add(xmax, py_mul(PyInt(k), lag))
        /\ \A k \in 1..(Len(x_pred) - 1) :
              /\ NumLt(x_pred[k], x_pred[k + 1])
              /\ x_pred[k].t = "int" =>
                    py_sub(x_pred[k + 1], x_pred[k]) = lag

\* C8 as stated: for lag > 0 and a nonempty deriv, x_last is the last element
\* of x_pred plus lag, and no element of x_pred is above x_last.
C8_OneStepPast ==
    (DispReturned /\ LagPositive /\ deriv # <<>>) =>
        /\ x_pred # <<>>
        /\ Exact(x_last) = Exact(LastOf(x_pred)) + Exact(lag)
        /\ \A k \in 1..Len(x_pred) : NumLe(x_pred[k], x_last)

\* C8 as amended: for an int xmax, an int lag > 0 and a nonempty deriv,
\* x_last is the last element of x_pred itself, and no element of x_pred is
\* above x_last.
C8_LastCoordinate ==
    (DispReturned /\ LagPositive /\ deriv # <<>>
         /\ xmax.t = "int" /\ lag.t = "int") =>
        /\ x_pred # <<>>
        /\ NumEq(x_last, LastOf(x_pred))
        /\ \A k \in 1..Len(x_pred) : NumLe(x_pred[k], x_last)

\* deriv of length 3, xmax = 10, lag = 1: x_last = 13, x_pred = 11, 12, 13
C8_Witness ==
    /\ DispReturned
    /\ Len(deriv) = 3
    /\ xmax = PyInt(10)
    /\ lag = PyInt(1)
    /\ x_last = PyInt(13)
    /\ x_pred = <<PyInt(11), PyInt(12), PyInt(13)>>

\* C9: a call with lag = 0 and a nonempty deriv is rejected on entry with
\* DegenerateParameterError or returns an empty x_pred; it does not divide by
\* zero and does not return an x_pred of another length than deriv_pred.
C9_ZeroLagDefined ==
    (IsZero(lag) /\ lag # NoNum /\ deriv # <<>>) =>
        /\ dpc = "raised" =>
              /\ derr.exc = "DegenerateParameterError"
              /\ derr.line <= 220
              /\ x_last = NoNum
        /\ dpc = "returned" => x_pred = <<>>

-----------------------------------------------------------------------------
(* template/graphics/plot_one_smoothing.py: plot_curves.  The curves are   *)
(* OneSmoothing objects; of each, the model keeps whether it has the       *)
(* attribute y_fitted, and draws its basis when the loop reads it (line    *)
(* 114).  A fitted curve's y_fitted has one value per row of the basis.    *)
(* plog lists the calls made on the axes and on the curves, in order.      *)

None == -1
OptLen(max) == {None} \cup (0..max)

Event(op, i) == [op |-> op, curve |-> i]

\* a slip: the check of line 112 left out
HasYFitted_unchecked(curve) == TRUE

\* hasattr(curve, "y_fitted")   (line 112)
HasYFitted(curve) == curve.y_fitted

\* a slip: the forward points always cut with -int_forw
YEnd_minus(b) == [none |-> FALSE, v |-> -b.int_forw]

\* None if bsp.int_forw == 0 else -bsp.int_forw   (line 122)
YEnd(b) ==
    IF b.int_forw = 0 THEN NoSlice ELSE [none |-> FALSE, v |-> -b.int_forw]

\* the indices a[start : stop] selects in a sequence of length n, stop
\* possibly None
SliceIdx(start, stop, n) ==
    LET lo == IF start < 0 THEN Max(start + n, 0) ELSE Min(start, n)
        hi == IF stop.none THEN n
              ELSE IF stop.v < 0 THEN Max(stop.v + n, 0) ELSE Min(stop.v, n)
    IN  {r \in 0..(n - 1) : lo <= r /\ r < hi}

\* the bases a fitted curve may have: bspline_bases[0] and the length of
\* the curve's y_fitted
PlotBases ==
    {[int_back |-> ib, int_forw |-> fw, xsample |-> XSample(n),
      y_fitted |-> ib + n + fw] :
        ib \in 0..MaxExt, fw \in 0..MaxExt, n \in 1..MaxSamples}

\* thin_prediction_range: the numbers of points it may put before and after
\* the samples (none where there is no extension)
ThinLens(ext) == IF ext = 0 THEN {0} ELSE 1..MaxThin

PlotInit ==
    /\ MaskIdle
    /\ DispIdle
    /\ PlotIdle

\* a call: the arguments are bound (lines 11-22)
Plot_Call ==
    /\ ppc = "idle"
    /\ spc = "idle"
    /\ \E n \in 0..MaxCurves :
         \E f \in [1..n -> [y_fitted : BOOLEAN]] : fittings' = f
    /\ knot_positions' \in BOOLEAN
    /\ constant_constraints' \in BOOLEAN
    /\ col_curve' \in OptLen(MaxCurves)
    /\ ppc' = "line81"
    /\ UNCHANGED <<curve_i, curve_bsp, x_left, x_right, y_end, plot_x, plot_y, perr,
                   plog>>
    /\ UNCHANGED notPlotVars

\* lines 81-90, the numbers of colours and curves agree
Plot_Colours ==
    /\ ppc = "line81"
    /\ LET cols == IF col_curve = None THEN Len(fittings) ELSE col_curve
       IN  /\ cols = Len(fittings)
           /\ col_curve' = cols
    /\ plog' = Append(plog, Event("subplots", 0))
    /\ ppc' = "line94"
    /\ UNCHANGED <<fittings, knot_positions, constant_constraints, curve_i,
                   curve_bsp, x_left, x_right, y_end, plot_x, plot_y, perr>>
    /\ UNCHANGED notPlotVars

\* lines 81-90, they do not agree
Plot_ColoursRaise ==
    /\ ppc = "line81"
    /\ col_curve # None
    /\ col_curve # Len(fittings)
    /\ plog' = Append(plog, Event("subplots", 0))
    /\ perr' = [exc |-> "ValueError", line |-> 90]
    /\ ppc' = "raised"
    /\ UNCHANGED <<fittings, knot_positions, constant_constraints, col_curve,
                   curve_i, curve_bsp, x_left, x_right, y_end, plot_x, plot_y>>
    /\ UNCHANGED notPlotVars

\* lines 94-108: no points given, or as many x as y as colours: one scatter
\* for each point set
Plot_Points ==
    /\ ppc = "line94"
    /\ \E x \in OptLen(MaxPts), y \in OptLen(MaxPts), col_pt \in OptLen(MaxPts) :
         LET given == x # None /\ y # None
             cols == IF col_pt = None THEN x ELSE col_pt
         IN  /\ given => (x = y /\ y = cols)
             /\ plog' = plog \o [k \in 1..(IF given THEN x ELSE 0) |->
                                   Event("scatter", k - 1)]
    /\ curve_i' = 0
    /\ ppc' = "line110"
    /\ UNCHANGED <<fittings, knot_positions, constant_constraints, col_curve,
                   curve_bsp, x_left, x_right, y_end, plot_x, plot_y, perr>>
    /\ UNCHANGED notPlotVars

\* lines 94-101: the lengths of x, y and col_pt differ
Plot_PointsRaise ==
    /\ ppc = "line94"
    /\ \E x \in 0..MaxPts, y \in 0..MaxPts, col_pt \in OptLen(MaxPts) :
         LET cols == IF col_pt = None THEN x ELSE col_pt
         IN  ~(x = y /\ y = cols)
    /\ perr' = [exc |-> "ValueError", line |-> 101]
    /\ ppc' = "raised"
    /\ UNCHANGED <<fittings, knot_positions, constant_constraints, col_curve,
                   curve_i, curve_bsp, x_left, x_right, y_end, plot_x, plot_y, plog>>
    /\ UNCHANGED notPlotVars

\* lines 110-113: the next curve has no y_fitted
Plot_NotFitted ==
    /\ ppc = "line110"
    /\ curve_i < Len(fittings)
    /\ ~HasYFitted(fittings[curve_i + 1])
    /\ perr' = [exc |-> "AttributeError", line |-> 113]
    /\ ppc' = "raised"
    /\ UNCHANGED <<fittings, knot_positions, constant_constraints, col_curve,
                   curve_i, curve_bsp, x_left, x_right, y_end, plot_x, plot_y, plog>>
    /\ UNCHANGED notPlotVars

\* lines 110-119: the next curve passes the check; its basis is read and
\* thin_prediction_range is called on it
Plot_Thin ==
    /\ ppc = "line110"
    /\ curve_i < Len(fittings)
    /\ HasYFitted(fittings[curve_i + 1])
    /\ \E b \in PlotBases :
         /\ curve_bsp' = b
         /\ x_left' \in ThinLens(b.int_back)
         /\ x_right' \in ThinLens(b.int_forw)
    /\ plog' = Append(plog, Event("thin_prediction_range", curve_i))
    /\ ppc' = "line122"
    /\ UNCHANGED <<fittings, knot_positions, constant_constraints, col_curve,
                   curve_i, y_end, plot_x, plot_y, perr>>
    /\ UNCHANGED notPlotVars

\* lines 122-137: the x sequence, predict on the left points, y_fitted cut
\* to [int_back : y_end], predict on the right points, ax.plot
Plot_Draw ==
    /\ ppc = "line122"
    /\ y_end' = YEnd(curve_bsp)
    /\ plot_x' = x_left + Len(curve_bsp.xsample) + x_right
    /\ plot_y' = x_left
                 + Cardinality(SliceIdx(curve_bsp.int_back, YEnd(curve_bsp), curve_bsp.y_fitted))
                 + x_right
    /\ plog' = plog \o <<Event("predict", curve_i), Event("y_fitted", curve_i),
                         Event("predict", curve_i), Event("plot", curve_i)>>
    /\ ppc' = "line141"
    /\ UNCHANGED <<fittings, knot_positions, constant_constraints, col_curve,
                   curve_i, curve_bsp, x_left, x_right, perr>>
    /\ UNCHANGED notPlotVars

\* lines 141-163: the lines at the ends of the fitting region, at the knots
\* and at the constant constraints; then the next curve
Plot_Lines ==
    /\ ppc = "line141"
    /\ plog' = plog
         \o (IF curve_bsp.int_back > 0 THEN <<Event("axvline", curve_i)>> ELSE <<>>)
         \o (IF curve_bsp.int_forw > 0 THEN <<Event("axvline", curve_i)>> ELSE <<>>)
         \o (IF knot_positions THEN <<Event("knots", curve_i)>> ELSE <<>>)
         \o (IF constant_constraints
             THEN <<Event("int_constraints", curve_i)>> ELSE <<>>)
    /\ curve_i' = curve_i + 1
    /\ ppc' = "line110"
    /\ UNCHANGED <<fittings, knot_positions, constant_constraints, col_curve,
                   curve_bsp, x_left, x_right, y_end, plot_x, plot_y, perr>>
    /\ UNCHANGED notPlotVars

\* line 164
Plot_Return ==
    /\ ppc = "line110"
    /\ curve_i = Len(fittings)
    /\ ppc' = "returned"
    /\ UNCHANGED <<fittings, knot_positions, constant_constraints, col_curve,
                   curve_i, curve_bsp, x_left, x_right, y_end, plot_x, plot_y, perr,
                   plog>>
    /\ UNCHANGED notPlotVars

PlotNext ==
    \/ Plot_Call
    \/ Plot_Colours
    \/ Plot_ColoursRaise
    \/ Plot_Points
    \/ Plot_PointsRaise
    \/ Plot_NotFitted
    \/ Plot_Thin
    \/ Plot_Draw
    \/ Plot_Lines
    \/ Plot_Return

SpecPlot == PlotInit /\ [][PlotNext]_vars

-----------------------------------------------------------------------------
(* Properties of plot_curves.                                              *)

Unfitted == {k \in 1..Len(fittings) : ~fittings[k].y_fitted}

\* the loop index (from 0) of the first curve without y_fitted
FirstUnfitted == (CHOOSE k \in Unfitted : \A j \in Unfitted : k <= j) - 1

\* what the loop does with a curve, as plog names it
CurveOps ==
    {"thin_prediction_range", "predict", "y_fitted", "plot", "axvline",
     "knots", "int_constraints"}

\* nothing is called on, read from or drawn for a curve at or after the
\* first unfitted one
NothingFromFirstUnfitted ==
    \A e \in 1..Len(plog) :
        plog[e].op \in CurveOps => plog[e].curve < FirstUnfitted

\* C10 as stated: if a curve in fittings has no y_fitted, plot_curves raises
\* AttributeError, and for the first such curve it raises before
\* thin_prediction_range or predict is called on it or its y_fitted is read;
\* no curve at or after the first unfitted one is drawn.
C10_AttributeError ==
    (ppc # "idle" /\ Unfitted # {}) =>
        /\ ppc # "returned"
        /\ ppc = "raised" => perr.exc = "AttributeError"
        /\ NothingFromFirstUnfitted

\* C10 as amended: if a curve in fittings has no y_fitted, plot_curves does
\* not return: it raises ValueError at the colour or point-set length check
\* (lines 90, 101) before it looks at any curve, or else AttributeError at
\* the first unfitted curve, before thin_prediction_range or predict is
\* called on it or its y_fitted is read; no curve at or after the first
\* unfitted one is drawn.
C10_FirstUnfitted ==
    (ppc # "idle" /\ Unfitted # {}) =>
        /\ ppc # "returned"
        /\ curve_i <= FirstUnfitted
        /\ ppc = "raised" =>
              \/ /\ perr = [exc |-> "AttributeError", line |-> 113]
                 /\ curve_i = FirstUnfitted
              \/ /\ perr.exc = "ValueError"
                 /\ perr.line \in {90, 101}
                 /\ \A e \in 1..Len(plog) : plog[e].op \notin CurveOps
        /\ NothingFromFirstUnfitted

\* AttributeError raised at the second curve, after the first was drawn
C10_Witness ==
    /\ ppc = "raised"
    /\ perr.exc = "AttributeError"
    /\ Len(fittings) = 2
    /\ curve_i = 1
    /\ \E e \in 1..Len(plog) : plog[e] = Event("plot", 0)

-----------------------------------------------------------------------------
(* template/graphics/plot_one_smoothing.py: plot_surfaces.  Of the arrays  *)
(* the model keeps the shapes.  The two bases of a surface, whether it has *)
(* y_fitted and the points thin_prediction_range returns are drawn when    *)
(* the loop reads them (line 194).  A fitted surface's y_fitted has one    *)
(* row per row of the first basis and one column per row of the second.    *)

Shape(r, c) == [r |-> r, c |-> c]

\* an array of the given shape, or the ValueError of the line that failed to
\* build it
Arr(sh) == [ok |-> TRUE, shape |-> sh, line |-> 0]

\* np.concatenate([a, b], axis=axis) of two 2-D arrays: the other dimension
\* must agree
np_concatenate(a, b, axis, line) ==
    IF ~a.ok THEN a
    ELSE IF ~b.ok THEN b
    ELSE IF axis = 0
    THEN IF a.shape.c = b.shape.c
         THEN Arr(Shape(a.shape.r + b.shape.r, a.shape.c))
         ELSE [ok |-> FALSE, shape |-> NoShape, line |-> line]
    ELSE IF a.shape.r = b.shape.r
         THEN Arr(Shape(a.shape.r, a.shape.c + b.shape.c))
         ELSE [ok |-> FALSE, shape |-> NoShape, line |-> line]

\* surface.predict(x=[x0, x1]): one value per pair of coordinates
PredictShape(n0, n1) == Arr(Shape(n0, n1))

\* lines 214-231: y_fitted cut to [int_back : y_end] on both axes, then the
\* predictions joined on, left and right along axis 1, up and down along
\* axis 0
ExtY(bases, ye0, ye1, xl, xr, x1len) ==
    LET b0 == bases[1]
        b1 == bases[2]
        n0 == Len(b0.xsample)
        cut == Arr(Shape(
                 Cardinality(SliceIdx(b0.int_back, ye0, b0.y_fitted)),
                 Cardinality(SliceIdx(b1.int_back, ye1, b1.y_fitted))))
        l == IF xl[2] > 0
             THEN np_concatenate(PredictShape(n0, xl[2]), cut, 1, 220) ELSE cut
        r == IF xr[2] > 0
             THEN np_concatenate(l, PredictShape(n0, xr[2]), 1, 225) ELSE l
        u == IF xl[1] > 0
             THEN np_concatenate(PredictShape(xl[1], x1len), r, 0, 228) ELSE r
    IN  IF xr[1] > 0
        THEN np_concatenate(u, PredictShape(xr[1], x1len), 0, 231) ELSE u

\* a call: the arguments are bound, the figure is made and the colour maps
\* are drawn when none are given (lines 167-191).  The colour maps given are
\* as many as the surfaces or one fewer.
Surf_Call ==
    /\ spc = "idle"
    /\ ppc = "idle"
    /\ \E n \in 0..MaxCurves :
         /\ surf_n' = n
         /\ \E c \in {None, Max(n - 1, 0), n} :
              col_surface' = IF c = None THEN n ELSE c
    /\ contour_plot' \in BOOLEAN
    /\ surf_knots' \in BOOLEAN
    /\ fig_ax' = 1
    /\ spc' = "line193"
    /\ UNCHANGED <<surf_i, surf_bsp, surf_fitted, sx_left, sx_right, ext_x0,
                   ext_x1, y_end_0, y_end_1, ext_y, serr>>
    /\ UNCHANGED notSurfVars

\* lines 193-212: thin_prediction_range on the bases of the next surface,
\* the extended coordinates and the ends of the two cuts
Surf_Thin ==
    /\ spc = "line193"
    /\ surf_i < surf_n
    /\ surf_fitted' \in BOOLEAN
    /\ \E b0 \in PlotBases, b1 \in PlotBases :
       \E l0 \in ThinLens(b0.int_back), r0 \in ThinLens(b0.int_forw),
          l1 \in ThinLens(b1.int_back), r1 \in ThinLens(b1.int_forw) :
         /\ surf_bsp' = <<b0, b1>>
         /\ sx_left' = <<l0, l1>>
         /\ sx_right' = <<r0, r1>>
         /\ ext_x0' = l0 + Len(b0.xsample) + r0
         /\ ext_x1' = l1 + Len(b1.xsample) + r1
         /\ y_end_0' = YEnd(b0)
         /\ y_end_1' = YEnd(b1)
    /\ spc' = "line214"
    /\ UNCHANGED <<surf_n, col_surface, contour_plot, surf_knots, surf_i, ext_y,
                   fig_ax, serr>>
    /\ UNCHANGED notSurfVars

\* line 214: the surface has no y_fitted
Surf_NotFitted ==
    /\ spc = "line214"
    /\ ~surf_fitted
    /\ serr' = [exc |-> "AttributeError", line |-> 214]
    /\ spc' = "raised"
    /\ UNCHANGED <<surf_n, col_surface, contour_plot, surf_knots, surf_i,
                   surf_bsp, surf_fitted, sx_left, sx_right, ext_x0, ext_x1,
                   y_end_0, y_end_1, ext_y, fig_ax>>
    /\ UNCHANGED notSurfVars

\* lines 214-231: ext_y is built; np.concatenate raises ValueError when the
\* shapes do not fit
Surf_Build ==
    /\ spc = "line214"
    /\ surf_fitted
    /\ LET a == ExtY(surf_bsp, y_end_0, y_end_1, sx_left, sx_right, ext_x1)
       IN  IF a.ok
           THEN /\ ext_y' = a.shape
                /\ spc' = "line232"
                /\ UNCHANGED serr
           ELSE /\ serr' = [exc |-> "ValueError", line |-> a.line]
                /\ spc' = "raised"
                /\ UNCHANGED ext_y
    /\ UNCHANGED <<surf_n, col_surface, contour_plot, surf_knots, surf_i,
                   surf_bsp, surf_fitted, sx_left, sx_right, ext_x0, ext_x1,
                   y_end_0, y_end_1, fig_ax>>
    /\ UNCHANGED notSurfVars

\* line 234: col_surface[i] past the end of the colour maps
Surf_ColourRaise ==
    /\ spc = "line232"
    /\ surf_i >= col_surface
    /\ serr' = [exc |-> "IndexError", line |-> 234]
    /\ spc' = "raised"
    /\ UNCHANGED <<surf_n, col_surface, contour_plot, surf_knots, surf_i,
                   surf_bsp, surf_fitted, sx_left, sx_right, ext_x0, ext_x1,
                   y_end_0, y_end_1, ext_y, fig_ax>>
    /\ UNCHANGED notSurfVars

\* lines 232-244: the surface is drawn, and its contour plot on a figure of
\* its own
Surf_Draw ==
    /\ spc = "line232"
    /\ surf_i < col_surface
    /\ fig_ax' = IF contour_plot THEN fig_ax + 1 ELSE fig_ax
    /\ spc' = "line245"
    /\ UNCHANGED <<surf_n, col_surface, contour_plot, surf_knots, surf_i,
                   surf_bsp, surf_fitted, sx_left, sx_right, ext_x0, ext_x1,
                   y_end_0, y_end_1, ext_y, serr>>
    /\ UNCHANGED notSurfVars

\* line 249: a knot is drawn on ax_contour, which was never bound
Surf_KnotsRaise ==
    /\ spc = "line245"
    /\ surf_knots
    /\ ~contour_plot
    /\ serr' = [exc |-> "UnboundLocalError", line |-> 249]
    /\ spc' = "raised"
    /\ UNCHANGED <<surf_n, col_surface, contour_plot, surf_knots, surf_i,
                   surf_bsp, surf_fitted, sx_left, sx_right, ext_x0, ext_x1,
                   y_end_0, y_end_1, ext_y, fig_ax>>
    /\ UNCHANGED notSurfVars

\* lines 245-265: the knots are drawn on the contour plot (none, when the
\* bases have no inner knots); then the next surface.  The next iteration
\* assigns every local of the loop before it reads it, so the model drops
\* their values here.
Surf_Knots ==
    /\ spc = "line245"
    /\ surf_i' = surf_i + 1
    /\ surf_bsp' = <<>>
    /\ surf_fitted' = FALSE
    /\ sx_left' = <<0, 0>>
    /\ sx_right' = <<0, 0>>
    /\ ext_x0' = 0
    /\ ext_x1' = 0
    /\ y_end_0' = NoSlice
    /\ y_end_1' = NoSlice
    /\ ext_y' = NoShape
    /\ spc' = "line193"
    /\ UNCHANGED <<surf_n, col_surface, contour_plot, surf_knots, fig_ax, serr>>
    /\ UNCHANGED notSurfVars

\* line 266
Surf_Return ==
    /\ spc = "line193"
    /\ surf_i = surf_n
    /\ spc' = "returned"
    /\ UNCHANGED <<surf_n, col_surface, contour_plot, surf_knots, surf_i,
                   surf_bsp, surf_fitted, sx_left, sx_right, ext_x0, ext_x1,
                   y_end_0, y_end_1, ext_y, fig_ax, serr>>
    /\ UNCHANGED notSurfVars

\* either plotting function is called, and runs to its end
GraphicsNext ==
    \/ Plot_Call
    \/ Plot_Colours
    \/ Plot_ColoursRaise
    \/ Plot_Points
    \/ Plot_PointsRaise
    \/ Plot_NotFitted
    \/ Plot_Thin
    \/ Plot_Draw
    \/ Plot_Lines
    \/ Plot_Return
    \/ Surf_Call
    \/ Surf_Thin
    \/ Surf_NotFitted
    \/ Surf_Build
    \/ Surf_ColourRaise
    \/ Surf_Draw
    \/ Surf_KnotsRaise
    \/ Surf_Knots
    \/ Surf_Return

SpecGraphics == PlotInit /\ [][GraphicsNext]_vars

-----------------------------------------------------------------------------
(* Properties of the trimming of y_fitted in the two plotting functions.   *)

\* the rows get_idx_fitting_region gives for the k-th of the bases
FittingRows(bases, k) ==
    SliceRows(get_idx_fitting_region(bases)[k], bases[k].y_fitted)

\* plot_curves has drawn the curve whose basis is curve_bsp
CurveDrawn ==
    \/ ppc = "line141"
    \/ ppc \in {"line110", "returned", "raised"} /\ curve_i > 0

\* plot_surfaces has built ext_y for the surface whose bases are surf_bsp
SurfaceBuilt ==
    \/ spc \in {"line232", "line245"}
    \/ spc = "raised" /\ serr.exc \in {"IndexError", "UnboundLocalError"}

\* C11: for bases with int_back >= 0, int_forw >= 0 and y_fitted of length
\* n_samples + int_back + int_forw on each axis, the cut
\* y_fitted[int_back : y_end] made by plot_curves and, on both axes, by
\* plot_surfaces selects exactly the rows of the fitting slice of
\* get_idx_fitting_region; the x and y sequences given to ax.plot have the
\* same length, and ext_y has one row per element of ext_x0 and one column
\* per element of ext_x1 (no np.concatenate fails on the way).
C11_TrimIsFittingSlice ==
    /\ CurveDrawn =>
          /\ SliceIdx(curve_bsp.int_back, y_end, curve_bsp.y_fitted)
                = FittingRows(<<curve_bsp>>, 1)
          /\ plot_x = plot_y
    /\ serr.exc # "ValueError"
    /\ SurfaceBuilt =>
          /\ SliceIdx(surf_bsp[1].int_back, y_end_0, surf_bsp[1].y_fitted)
                = FittingRows(surf_bsp, 1)
          /\ SliceIdx(surf_bsp[2].int_back, y_end_1, surf_bsp[2].y_fitted)
                = FittingRows(surf_bsp, 2)
          /\ ext_y = Shape(ext_x0, ext_x1)

\* a surface is built whose first axis has points before the samples and
\* none after (y_end_0 is None), whose second axis has points after
\* (y_end_1 negative), with predictions joined on along both axes
C11_Witness ==
    /\ spc = "line245"
    /\ surf_bsp[1].int_back > 0
    /\ surf_bsp[1].int_forw = 0
    /\ y_end_0.none
    /\ surf_bsp[2].int_forw > 0
    /\ ~y_end_1.none
    /\ ext_y.r > Len(surf_bsp[1].xsample)
    /\ ext_y.c > Len(surf_bsp[2].xsample)

====
